---- MODULE Spec2Model ----
(***************************************************************************)
(* A model of tcx_compare: the TCX heart-rate analyzer (analyze.py) and    *)
(* the synthetic TCX generator (generate_synthetic_tcx.py).                *)
(*                                                                         *)
(* Numbers.  Heart rates read from a TCX file are integers (bpm).  A mean  *)
(* of integers is kept exactly, as a reduced fraction [num, den]; the      *)
(* statistics and the differences are computed on these fractions.         *)
(* An optional value (None in Python, NaN in a pandas column) is the empty *)
(* set; a present value v is the set {v}.                                  *)
(***************************************************************************)
EXTENDS Integers, Sequences, FiniteSets, TLC

\* ------------------------------------------------------------------ bounds

\* Longest trackpoint sequence a TCX file of the model holds.
MaxLen == 2

\* Trackpoint times are the instants 1..MaxTime.
MaxTime == 2

\* ------------------------------------------------------------- basic values

None == {}

Some(v) == {v}

Val(o) == CHOOSE v \in o : TRUE

Abs(x) == IF x < 0 THEN -x ELSE x

RECURSIVE GCD(_, _)
GCD(a, b) == IF b = 0 THEN a ELSE GCD(b, a % b)

\* The fraction n/d (d > 0) in lowest terms.
Rat(n, d) ==
    LET g == GCD(Abs(n), d)
    IN  [num |-> n \div g, den |-> d \div g]

RatOfInt(n) == [num |-> n, den |-> 1]

RatAdd(a, b) == Rat(a.num * b.den + b.num * a.den, a.den * b.den)

RatSub(a, b) == Rat(a.num * b.den - b.num * a.den, a.den * b.den)

RatNeg(a) == [num |-> -a.num, den |-> a.den]

RatAbs(a) == [num |-> Abs(a.num), den |-> a.den]

RatDivInt(a, n) == Rat(a.num, a.den * n)

RatLeq(a, b) == a.num * b.den <= b.num * a.den

SeqsUpTo(S, n) == UNION {[1..k -> S] : k \in 0..n}

Perms(n) == {p \in [1..n -> 1..n] : \A a, b \in 1..n : p[a] = p[b] => a = b}

Permute(s, p) == [k \in 1..Len(s) |-> s[p[k]]]

RECURSIVE SetToSortedSeq(_)
SetToSortedSeq(S) ==
    IF S = {} THEN <<>>
    ELSE LET m == CHOOSE x \in S : \A y \in S : x <= y
         IN  <<m>> \o SetToSortedSeq(S \ {m})

\* ------------------------------------------------------ trackpoints (input)

Timestamps == 1..MaxTime

HRValues == {60, 80}

\* The position, altitude and distance readings a trackpoint may carry:
\* none at all, a position only, or all four with other values.
AuxRows ==
    { [latitude |-> None, longitude |-> None, altitude |-> None, distance |-> None],
      [latitude |-> Some(1), longitude |-> Some(1), altitude |-> None, distance |-> None],
      [latitude |-> Some(2), longitude |-> Some(2), altitude |-> Some(1), distance |-> Some(1)] }

MkTrackpoint(t, h, a) ==
    [time |-> t, hr_value |-> h,
     latitude |-> a.latitude, longitude |-> a.longitude,
     altitude |-> a.altitude, distance |-> a.distance]

\* What tcxreader yields for one <Trackpoint>: a time, an optional heart
\* rate, optional position, altitude and distance.
Trackpoints ==
    { MkTrackpoint(t, h, a) :
        t \in Timestamps, h \in {None} \cup {Some(v) : v \in HRValues}, a \in AuxRows }

\* Trackpoints of a device that records a heart rate every time and nothing else.
HROnlyTrackpoints ==
    { tp \in Trackpoints :
        tp.hr_value # None /\ tp.latitude = None /\ tp.altitude = None }

\* ------------------------------------------------- analyze.py: read_tcx_file

\* Lines 36-49: keep the trackpoints that have a heart rate, as dict rows.
HeartRateData(file) ==
    LET kept == SelectSeq(file, LAMBDA tp : tp.hr_value # None)
    IN  [k \in 1..Len(kept) |->
            [timestamp |-> kept[k].time,
             heart_rate |-> Val(kept[k].hr_value),
             latitude |-> kept[k].latitude,
             longitude |-> kept[k].longitude,
             altitude |-> kept[k].altitude,
             distance |-> kept[k].distance]]

\* Line 55: df.sort_values('timestamp').  The default kind is quicksort,
\* which is not stable: rows with equal timestamps may come out in any order.
SortValues(rows) ==
    { Permute(rows, p) : p \in
        { q \in Perms(Len(rows)) :
            \A a, b \in 1..Len(rows) :
                a < b => rows[q[a]].timestamp <= rows[q[b]].timestamp } }

RECURSIVE SumSeq(_)
SumSeq(s) == IF s = <<>> THEN 0 ELSE Head(s) + SumSeq(Tail(s))

\* agg 'mean' over a group's heart rates.
AggMeanBroken(col) == RatOfInt(Head(col))

AggMean(col) == Rat(SumSeq(col), Len(col))

\* agg 'first': the first non-null entry of a column of the group, in the
\* order of the rows of the (sorted) frame; null when there is none.
AggFirstBroken(col) == IF col = <<>> THEN None ELSE col[Len(col)]

RECURSIVE AggFirst(_)
AggFirst(col) ==
    IF col = <<>> THEN None
    ELSE IF Head(col) # None THEN Head(col)
    ELSE AggFirst(Tail(col))

Column(rows, f) == [k \in 1..Len(rows) |-> rows[k][f]]

\* Lines 58-64: groupby('timestamp').agg({...}).reset_index(): one row per
\* distinct timestamp, the group keys in ascending order.
GroupByAggBroken(rows) ==
    [k \in 1..Len(rows) |->
        [timestamp |-> rows[k].timestamp,
         heart_rate |-> RatOfInt(rows[k].heart_rate),
         latitude |-> rows[k].latitude,
         longitude |-> rows[k].longitude,
         altitude |-> rows[k].altitude,
         distance |-> rows[k].distance]]

GroupByAgg(rows) ==
    LET keys == SetToSortedSeq({rows[k].timestamp : k \in 1..Len(rows)})
        Group(t) == SelectSeq(rows, LAMBDA r : r.timestamp = t)
    IN  [k \in 1..Len(keys) |->
            [timestamp |-> keys[k],
             heart_rate |-> AggMean(Column(Group(keys[k]), "heart_rate")),
             latitude |-> AggFirst(Column(Group(keys[k]), "latitude")),
             longitude |-> AggFirst(Column(Group(keys[k]), "longitude")),
             altitude |-> AggFirst(Column(Group(keys[k]), "altitude")),
             distance |-> AggFirst(Column(Group(keys[k]), "distance"))]]

EmptyDataFrame == <<>>

\* Lines 28-70: every frame read_tcx_file may return for a file.  (A file
\* that cannot be read gives pd.DataFrame() too, line 70, like a file
\* without any heart rate.)
read_tcx_file(file) ==
    IF HeartRateData(file) = <<>>
    THEN {EmptyDataFrame}
    ELSE {GroupByAgg(s) : s \in SortValues(HeartRateData(file))}

\* ------------------------------------------- analyze.py: calculate_differences

\* Lines 130-135: pd.merge(..., on='timestamp'), an inner join of the two
\* [timestamp, heart_rate] frames, in the order of the left frame's rows.
RECURSIVE MergeBroken(_, _)
MergeBroken(left, right) ==
    IF left = <<>> THEN <<>>
    ELSE LET l == Head(left)
             m == SelectSeq(right, LAMBDA r : r.timestamp = l.timestamp)
         IN  (IF m = <<>>
              THEN << [timestamp |-> l.timestamp,
                       heart_rate_device1 |-> l.heart_rate,
                       heart_rate_device2 |-> RatOfInt(0)] >>
              ELSE [k \in 1..Len(m) |->
                       [timestamp |-> l.timestamp,
                        heart_rate_device1 |-> l.heart_rate,
                        heart_rate_device2 |-> m[k].heart_rate]])
             \o MergeBroken(Tail(left), right)

RECURSIVE Merge(_, _)
Merge(left, right) ==
    IF left = <<>> THEN <<>>
    ELSE LET l == Head(left)
             m == SelectSeq(right, LAMBDA r : r.timestamp = l.timestamp)
         IN  [k \in 1..Len(m) |->
                 [timestamp |-> l.timestamp,
                  heart_rate_device1 |-> l.heart_rate,
                  heart_rate_device2 |-> m[k].heart_rate]]
             \o Merge(Tail(left), right)

\* Lines 142-144: the heart_rate_difference column.
HeartRateDifferenceBroken(hr1, hr2) == RatAbs(RatSub(hr1, hr2))

HeartRateDifference(hr1, hr2) == RatSub(hr1, hr2)

NoMatchMessage == "No matching timestamps found between devices"

\* Lines 124-146.  ret is the frame returned, out the lines printed.
calculate_differences(d1, d2) ==
    IF d1 = EmptyDataFrame \/ d2 = EmptyDataFrame
    THEN [ret |-> EmptyDataFrame, out |-> <<>>]
    ELSE LET merged == Merge(d1, d2)
         IN  IF merged = <<>>
             THEN [ret |-> EmptyDataFrame, out |-> <<NoMatchMessage>>]
             ELSE [ret |-> [k \in 1..Len(merged) |->
                              [timestamp |-> merged[k].timestamp,
                               heart_rate_device1 |-> merged[k].heart_rate_device1,
                               heart_rate_device2 |-> merged[k].heart_rate_device2,
                               heart_rate_difference |->
                                   HeartRateDifference(merged[k].heart_rate_device1,
                                                       merged[k].heart_rate_device2)]],
                   out |-> <<>>]

\* ------------------------------------ analyze.py: calculate_summary_statistics

RECURSIVE RatMin(_)
RatMin(col) ==
    IF Len(col) = 1 THEN col[1]
    ELSE LET m == RatMin(Tail(col))
         IN  IF RatLeq(Head(col), m) THEN Head(col) ELSE m

RECURSIVE RatMax(_)
RatMax(col) ==
    IF Len(col) = 1 THEN col[1]
    ELSE LET m == RatMax(Tail(col))
         IN  IF RatLeq(m, Head(col)) THEN Head(col) ELSE m

RECURSIVE RatSum(_)
RatSum(col) == IF col = <<>> THEN RatOfInt(0) ELSE RatAdd(Head(col), RatSum(Tail(col)))

RatMean(col) == RatDivInt(RatSum(col), Len(col))

\* Lines 154-159 and 163-168.
DeviceStats(df) ==
    LET hr == Column(df, "heart_rate")
    IN  [min_hr |-> RatMin(hr), avg_hr |-> RatMean(hr), max_hr |-> RatMax(hr),
         count |-> Len(df)]

\* Lines 173-179.
DifferenceStats(diff) ==
    LET d == Column(diff, "heart_rate_difference")
    IN  [min_diff |-> RatMin(d), avg_diff |-> RatMean(d), max_diff |-> RatMax(d),
         abs_avg_diff |-> RatMean([k \in 1..Len(d) |-> RatAbs(d[k])]),
         count |-> Len(diff)]

\* The keys of the stats dict (lines 153, 162, 172).
StatsKeysBroken(d1, d2, diff) ==
    IF d1 = EmptyDataFrame \/ d2 = EmptyDataFrame THEN {}
    ELSE {"device1", "device2"}
         \cup (IF diff # EmptyDataFrame THEN {"difference"} ELSE {})

StatsKeys(d1, d2, diff) ==
    (IF d1 # EmptyDataFrame THEN {"device1"} ELSE {})
    \cup (IF d2 # EmptyDataFrame THEN {"device2"} ELSE {})
    \cup (IF diff # EmptyDataFrame THEN {"difference"} ELSE {})

\* Lines 148-181: the stats dict, a function on the keys present.
calculate_summary_statistics(d1, d2) ==
    LET diff == calculate_differences(d1, d2).ret
    IN  [key \in StatsKeys(d1, d2, diff) |->
            IF key = "device1" THEN DeviceStats(d1)
            ELSE IF key = "device2" THEN DeviceStats(d2)
            ELSE DifferenceStats(diff)]

\* ------------------------------------------------- analyze.py: the analyzer

VARIABLES
    file1, file2,     \* the trackpoints of the two TCX files given to main
    device1_data,     \* TCXHeartRateAnalyzer.device1_data (None before load_files)
    device2_data,     \* TCXHeartRateAnalyzer.device2_data
    diff_data,        \* what the last call of calculate_differences returned
    stats,            \* what calculate_summary_statistics returned
    stdout,           \* the diagnostic lines printed so far
    pc                \* where main is: start, loaded, plotted, done

avars == <<file1, file2, device1_data, device2_data, diff_data, stats, stdout, pc>>

VARIABLES
    clock,              \* the wall clock, in whole seconds
    rng,                \* the state of the global random module
    run,                \* which run of the generator program this is: 1 or 2
    seed,               \* the --seed both runs are given
    device_configs,     \* SyntheticTCXGenerator.device_configs
    true_timestamps,    \* the ground truth: timestamps ...
    true_hr,            \* ... and heart rates (milli-bpm)
    positions,          \* what generate_position_data returned
    device_config,      \* the profile generate_device_data was called with
    noise,              \* its local noise
    i,                  \* its loop index (0-based, as in the code)
    device_timestamps,  \* its output so far: timestamps ...
    device_hr,          \* ... and heart rates (milli-bpm)
    dev,                \* the device generate_files is generating: 1 or 2
    device1_out,        \* generate_files: (device1_timestamps, device1_hr)
    saved,              \* the trackpoints of the files saved, per run
    raised,             \* the exception that ended the call, if any
    gpc                 \* where the generator is

gvars == <<clock, rng, run, seed, device_configs, true_timestamps, true_hr,
           positions, device_config, noise, i, device_timestamps, device_hr,
           dev, device1_out, saved, raised, gpc>>

NotLoaded == "None"

\* The generator is not part of an analyzer run.
GeneratorIdle ==
    /\ clock = 0
    /\ rng = [seeded |-> FALSE]
    /\ run = 1
    /\ seed = "None"
    /\ device_configs = "None"
    /\ true_timestamps = <<>>
    /\ true_hr = <<>>
    /\ positions = <<>>
    /\ device_config = "None"
    /\ noise = <<>>
    /\ i = 0
    /\ device_timestamps = <<>>
    /\ device_hr = <<>>
    /\ dev = 1
    /\ device1_out = "None"
    /\ saved = <<>>
    /\ raised = "None"
    /\ gpc = "idle"

\* Line 20-26 and main up to line 228: a fresh analyzer and two files.
AnalyzerInit(f1, f2) ==
    /\ file1 = f1
    /\ file2 = f2
    /\ device1_data = NotLoaded
    /\ device2_data = NotLoaded
    /\ diff_data = NotLoaded
    /\ stats = NotLoaded
    /\ stdout = <<>>
    /\ pc = "start"
    /\ GeneratorIdle

\* Lines 72-82: load_files reads both files.
LoadFiles ==
    /\ pc = "start"
    /\ device1_data' \in read_tcx_file(file1)
    /\ device2_data' \in read_tcx_file(file2)
    /\ pc' = "loaded"
    /\ UNCHANGED <<file1, file2, diff_data, stats, stdout>>
    /\ UNCHANGED gvars

\* Lines 84-122: plot_heart_rates; the drawing itself is left out.
PlotHeartRates ==
    /\ pc = "loaded"
    /\ IF device1_data = EmptyDataFrame \/ device2_data = EmptyDataFrame
       THEN /\ stdout' = Append(stdout, "No data to plot")
            /\ UNCHANGED diff_data
       ELSE LET r == calculate_differences(device1_data, device2_data)
            IN  /\ diff_data' = r.ret
                /\ stdout' = stdout \o r.out
    /\ pc' = "plotted"
    /\ UNCHANGED <<file1, file2, device1_data, device2_data, stats>>
    /\ UNCHANGED gvars

\* Lines 183-215: print_summary, which calls calculate_summary_statistics
\* (and through it calculate_differences).
PrintSummary ==
    /\ pc = "plotted"
    /\ LET r == calculate_differences(device1_data, device2_data)
           st == calculate_summary_statistics(device1_data, device2_data)
       IN  /\ diff_data' = r.ret
           /\ stats' = st
           /\ stdout' = stdout \o r.out \o
                (IF DOMAIN st = {} THEN <<"No data available for summary">> ELSE <<>>)
    /\ pc' = "done"
    /\ UNCHANGED <<file1, file2, device1_data, device2_data>>
    /\ UNCHANGED gvars

AnalyzerNext == LoadFiles \/ PlotHeartRates \/ PrintSummary

vars == <<avars, gvars>>

\* The Series Loader on a file and on a reordering of the same trackpoints.
LoaderInit ==
    \E f \in SeqsUpTo(Trackpoints, MaxLen) :
        \E p \in Perms(Len(f)) : AnalyzerInit(f, Permute(f, p))

SpecLoader == LoaderInit /\ [][AnalyzerNext]_vars

\* The Reconciler on the files of two heart-rate-only devices.
Init ==
    \E f1 \in SeqsUpTo(HROnlyTrackpoints, MaxLen) :
        \E f2 \in SeqsUpTo(HROnlyTrackpoints, MaxLen) : AnalyzerInit(f1, f2)

Next == AnalyzerNext

Spec == Init /\ [][Next]_vars

\* --------------------------------------- generate_synthetic_tcx.py: numbers
\* Heart rates, bias and noise are in milli-bpm; probabilities and the
\* values of random.random() are in thousandths (0..999 for random());
\* the clock and all timestamps are in half seconds.

\* Longest ground-truth series generate_device_data is called with directly.
MaxSamples == 2

\* The samples of one generate_files run: stands for
\* exercise_duration_minutes * 60 (lines 49 and 259), shortened.
DurationSeconds == 5

\* The wall clock runs from 0 to MaxClock half seconds.
MaxClock == 2

\* Explicit seeds are 0..MaxSeed.
MaxSeed == 15

true_hr_min == 60

true_hr_max == 180

Min(a, b) == IF a <= b THEN a ELSE b

Max(a, b) == IF a >= b THEN a ELSE b

\* x * (permille / 1000).
Scale(x, permille) == (x * permille) \div 1000

\* ------------------------------------------------------- the random module

\* random.seed(seed), line 23: the generator state is a function of the seed.
Seeded(sd) == [seeded |-> TRUE, state |-> sd % 16]

\* What random.random() may return when no seed was given: its lowest, its
\* middle and its highest value.
UniformDraws == {0, 500, 999}

\* One call of random.random(): the value u and the generator afterwards.
\* Seeded, the stream is one fixed sequence (a full-period congruential
\* generator stands for the Mersenne Twister); unseeded, any value may come.
Random(r) ==
    IF r.seeded
    THEN {[u |-> (r.state * 1000) \div 16,
           rng |-> [seeded |-> TRUE, state |-> (5 * r.state + 3) % 16]]}
    ELSE {[u |-> u, rng |-> r] : u \in UniformDraws}

\* n calls in a row.
RECURSIVE Draws(_, _)
Draws(r, n) ==
    IF n = 0 THEN {[us |-> <<>>, rng |-> r]}
    ELSE UNION { { [us |-> <<d.u>> \o e.us, rng |-> e.rng] : e \in Draws(d.rng, n - 1) }
                 : d \in Random(r) }

\* random.uniform(a, b) from the underlying value u.
Uniform(a, b, u) == a + ((b - a) * u) \div 1000

\* random.randint(a, b), a <= b, from the underlying value u.
RandIntBroken(a, b, u) == (a - 1) + (u * (b - a + 1)) \div 1000

RandInt(a, b, u) == a + (u * (b - a + 1)) \div 1000

\* random.gauss(mu, sigma) from the underlying value u: u in [0, 1) is
\* mapped linearly to [-2 sigma, 2 sigma).
Gauss(mu, sigma, u) == mu + (sigma * (4 * u - 2000)) \div 1000

\* ------------------------------------- SyntheticTCXGenerator.__init__ (20-50)

\* Lines 27-36 and 37-43: one device's profile from five draws.
DeviceConfig(us, k) ==
    [bias |-> Uniform(-10000, 10000, us[k]),
     noise_std |-> Uniform(1000, 3000, us[k + 1]),
     gap_probability |-> Uniform(10, 50, us[k + 2]),
     max_gap_seconds |-> RandInt(3, 30, us[k + 3]),
     duplicate_probability |-> Uniform(50, 150, us[k + 4])]

\* ------------------------------------------ generate_true_heart_rate (52-89)

\* math.sin of x milli-radians, in thousandths (x - x^3/6 + x^5/120; the
\* arguments of the model stay below 0.7 rad).
SinMilli(x) ==
    LET x3 == (((x * x) \div 1000) * x) \div 1000
        x5 == (((x3 * x) \div 1000) * x) \div 1000
    IN  x - x3 \div 6 + x5 \div 120

\* Lines 61-80: base_hr of sample k of d, in milli-bpm.
BaseHR(k, d) ==
    LET lo == true_hr_min * 1000
        hi == true_hr_max * 1000
    IN  IF 5 * k < d                                   \* progress < 0.2
        THEN lo + ((hi - lo) * 5 * k) \div (2 * d)
        ELSE IF 2 * k < d                              \* progress < 0.5
        THEN lo + (hi - lo) \div 2 + ((hi - lo) * (5 * k - d)) \div (3 * d)
        ELSE IF 5 * k < 4 * d                          \* progress < 0.8
        THEN hi - ((hi - lo) * (2 * k - d)) \div (3 * d)
        ELSE Scale(hi, 800) - ((Scale(hi, 800) - lo) * (5 * k - 4 * d)) \div d

\* Lines 83-86: variability added, clamped to [true_hr_min, true_hr_max].
TrueHRValue(k, d) ==
    LET variability == SinMilli(100 * k) * 3 + SinMilli(50 * k) * 2
    IN  Max(true_hr_min * 1000, Min(true_hr_max * 1000, BaseHR(k, d) + variability))

\* Line 60: start_time + timedelta(seconds=k), in half seconds.
TimestampAfter(start_time, k) == start_time + 2 * k

\* ------------------------------------ generate_autocorrelated_noise (91-102)

\* The first n >= 1 values of the noise, from the draws us.
RECURSIVE AutocorrelatedNoise(_, _, _)
AutocorrelatedNoise(n, std_dev, us) ==
    IF n = 1 THEN << Gauss(0, std_dev, us[1]) >>
    ELSE LET prev == AutocorrelatedNoise(n - 1, std_dev, us)
         IN  Append(prev, Scale(prev[n - 1], 700) + Gauss(0, Scale(std_dev, 714), us[n]))

\* Line 93 draws once even for length 0.
NoiseLength(length) == Max(1, length)

\* ----------------------------------------------- generate_device_data (104-141)

\* Lines 126 and 135: max(40, min(220, value)).
ClampBroken(value) == Min(220 * 1000, value)

Clamp(value) == Max(40 * 1000, Min(220 * 1000, value))

\* Lines 106-112: the noise is drawn, the outputs are empty, i = 0.
DeviceBegin ==
    /\ gpc = "device_begin"
    /\ \E d \in Draws(rng, NoiseLength(Len(true_hr))) :
        /\ noise' = AutocorrelatedNoise(NoiseLength(Len(true_hr)),
                                        device_config.noise_std, d.us)
        /\ rng' = d.rng
    /\ i' = 0
    /\ device_timestamps' = <<>>
    /\ device_hr' = <<>>
    /\ gpc' = "device_loop"
    /\ UNCHANGED <<clock, run, seed, device_configs, true_timestamps, true_hr,
                   positions, device_config, dev, device1_out, saved, raised>>
    /\ UNCHANGED avars

\* Lines 113-119: an iteration that takes a gap.  random.randint(1, n)
\* raises ValueError for n < 1.
DeviceGap ==
    /\ gpc = "device_loop"
    /\ i < Len(true_timestamps)
    /\ \E d \in Random(rng) :
        /\ d.u < device_config.gap_probability
        /\ IF device_config.max_gap_seconds < 1
           THEN /\ raised' = "ValueError"
                /\ gpc' = "raised"
                /\ rng' = d.rng
                /\ UNCHANGED i
           ELSE /\ \E g \in Random(d.rng) :
                    /\ i' = i + RandInt(1, device_config.max_gap_seconds, g.u)
                    /\ rng' = g.rng
                /\ UNCHANGED <<raised, gpc>>
    /\ UNCHANGED <<clock, run, seed, device_configs, true_timestamps, true_hr,
                   positions, device_config, noise, device_timestamps, device_hr,
                   dev, device1_out, saved>>
    /\ UNCHANGED avars

\* Lines 113-139: an iteration that emits a sample, and maybe its duplicate.
DeviceEmitBroken ==
    /\ gpc = "device_loop"
    /\ i < Len(true_timestamps)
    /\ \E d \in Random(rng) :
        /\ ~(d.u < device_config.gap_probability)
        /\ LET true_value == true_hr[i + 1]
               device_value == Clamp(true_value + device_config.bias + noise[i + 1])
           IN  \E c \in Random(d.rng) :
                 IF c.u < device_config.duplicate_probability
                 THEN \E g \in Random(c.rng) :
                        LET duplicate_value == Clamp(device_value + Gauss(0, 1000, g.u))
                        IN  /\ device_timestamps' =
                                 device_timestamps \o
                                   <<true_timestamps[i + 1], true_timestamps[1]>>
                            /\ device_hr' = device_hr \o <<device_value, duplicate_value>>
                            /\ rng' = g.rng
                 ELSE /\ device_timestamps' = Append(device_timestamps, true_timestamps[i + 1])
                      /\ device_hr' = Append(device_hr, device_value)
                      /\ rng' = c.rng
    /\ i' = i + 1
    /\ UNCHANGED <<clock, run, seed, device_configs, true_timestamps, true_hr,
                   positions, device_config, noise, dev, device1_out, saved,
                   raised, gpc>>
    /\ UNCHANGED avars

DeviceEmit ==
    /\ gpc = "device_loop"
    /\ i < Len(true_timestamps)
    /\ \E d \in Random(rng) :
        /\ ~(d.u < device_config.gap_probability)
        /\ LET true_value == true_hr[i + 1]
               device_value == Clamp(true_value + device_config.bias + noise[i + 1])
           IN  \E c \in Random(d.rng) :
                 IF c.u < device_config.duplicate_probability
                 THEN \E g \in Random(c.rng) :
                        LET duplicate_value == Clamp(device_value + Gauss(0, 1000, g.u))
                        IN  /\ device_timestamps' =
                                 device_timestamps \o
                                   <<true_timestamps[i + 1], true_timestamps[i + 1]>>
                            /\ device_hr' = device_hr \o <<device_value, duplicate_value>>
                            /\ rng' = g.rng
                 ELSE /\ device_timestamps' = Append(device_timestamps, true_timestamps[i + 1])
                      /\ device_hr' = Append(device_hr, device_value)
                      /\ rng' = c.rng
    /\ i' = i + 1
    /\ UNCHANGED <<clock, run, seed, device_configs, true_timestamps, true_hr,
                   positions, device_config, noise, dev, device1_out, saved,
                   raised, gpc>>
    /\ UNCHANGED avars

\* Line 141, and the caller's next step: lines 267-271 of generate_files
\* (dev = 1, 2) or the end of a direct call (dev = 0).
DeviceReturn ==
    /\ gpc = "device_loop"
    /\ i >= Len(true_timestamps)
    /\ IF dev = 1
       THEN /\ device1_out' = [timestamps |-> device_timestamps, hr |-> device_hr]
            /\ dev' = 2
            /\ device_config' = device_configs.device2
            /\ gpc' = "device_begin"
       ELSE /\ gpc' = IF dev = 2 THEN "save" ELSE "returned"
            /\ UNCHANGED <<device1_out, dev, device_config>>
    /\ UNCHANGED <<clock, rng, run, seed, device_configs, true_timestamps, true_hr,
                   positions, noise, i, device_timestamps, device_hr, saved, raised>>
    /\ UNCHANGED avars

\* ------------------------------------------- generate_position_data (143-164)

\* Position k (0-based) from its altitude draw: micro-degrees, millimetres.
Position(k, u) ==
    [latitude |-> 38948200 + k,
     longitude |-> (-104731200) + k,
     altitude |-> 2148000 + Uniform(-5000, 5000, u),
     distance |-> k * 2500]

\* ------------------------------------------------- create_tcx_xml (166-238)

\* Line 209: strftime('%Y-%m-%dT%H:%M:%SZ') keeps the whole second.
FormatTimeBroken(timestamp) == 0

FormatTime(timestamp) == timestamp \div 2

\* Line 230: int(round(hr)), which rounds a half to the even neighbour.
RoundHR(hr) ==
    LET q == hr \div 1000
        r == hr % 1000
    IN  IF r < 500 THEN q
        ELSE IF r > 500 THEN q + 1
        ELSE IF q % 2 = 0 THEN q ELSE q + 1

\* Lines 204-230: the <Trackpoint> elements written for one device.
TcxTrackpoints(timestamps, heart_rates, pos) ==
    [k \in 1..Len(timestamps) |->
        [time |-> FormatTime(timestamps[k]),
         position |-> IF k <= Len(pos) THEN Some(pos[k]) ELSE None,
         hr_value |-> RoundHR(heart_rates[k])]]

\* ----------------------------------------------------- the generator program

\* main, lines 296-308, line 307: SyntheticTCXGenerator(seed=args.seed) seeds
\* the random module and draws the two profiles (lines 22-44).
Construct ==
    /\ gpc = "main"
    /\ \E d \in Draws(Seeded(seed), 10) :
        /\ device_configs' = [device1 |-> DeviceConfig(d.us, 1),
                              device2 |-> DeviceConfig(d.us, 6)]
        /\ rng' = d.rng
    /\ gpc' = "constructed"
    /\ UNCHANGED <<clock, run, seed, true_timestamps, true_hr, positions,
                   device_config, noise, i, device_timestamps, device_hr, dev,
                   device1_out, saved, raised>>
    /\ UNCHANGED avars

\* Lines 259-261 with 52-89: the ground truth starts at datetime.now().
GenerateTrueHeartRate ==
    /\ gpc = "constructed"
    /\ LET start_time == clock
       IN  /\ true_timestamps' =
                [k \in 1..DurationSeconds |-> TimestampAfter(start_time, k - 1)]
           /\ true_hr' =
                [k \in 1..DurationSeconds |-> TrueHRValue(k - 1, DurationSeconds)]
    /\ gpc' = "positions"
    /\ UNCHANGED <<clock, rng, run, seed, device_configs, positions, device_config,
                   noise, i, device_timestamps, device_hr, dev, device1_out, saved,
                   raised>>
    /\ UNCHANGED avars

\* Line 264 with 143-164, then the call of line 267 for device 1.
GeneratePositionData ==
    /\ gpc = "positions"
    /\ \E d \in Draws(rng, DurationSeconds) :
        /\ positions' = [k \in 1..DurationSeconds |-> Position(k - 1, d.us[k])]
        /\ rng' = d.rng
    /\ dev' = 1
    /\ device_config' = device_configs.device1
    /\ gpc' = "device_begin"
    /\ UNCHANGED <<clock, run, seed, device_configs, true_timestamps, true_hr,
                   noise, i, device_timestamps, device_hr, device1_out, saved,
                   raised>>
    /\ UNCHANGED avars

\* Lines 273-284: both files are written; the program ends.
SaveFiles ==
    /\ gpc = "save"
    /\ saved' = Append(saved,
         [device1 |-> TcxTrackpoints(device1_out.timestamps, device1_out.hr, positions),
          device2 |-> TcxTrackpoints(device_timestamps, device_hr, positions)])
    /\ gpc' = "exited"
    /\ UNCHANGED <<clock, rng, run, seed, device_configs, true_timestamps, true_hr,
                   positions, device_config, noise, i, device_timestamps, device_hr,
                   dev, device1_out, raised>>
    /\ UNCHANGED avars

\* The program is started a second time with the same --seed: a new
\* process, whose state is fresh; the files of the first run remain.
SecondRun ==
    /\ gpc = "exited"
    /\ run = 1
    /\ run' = 2
    /\ rng' = [seeded |-> FALSE]
    /\ device_configs' = "None"
    /\ true_timestamps' = <<>>
    /\ true_hr' = <<>>
    /\ positions' = <<>>
    /\ device_config' = "None"
    /\ noise' = <<>>
    /\ i' = 0
    /\ device_timestamps' = <<>>
    /\ device_hr' = <<>>
    /\ dev' = 1
    /\ device1_out' = "None"
    /\ gpc' = "main"
    /\ UNCHANGED <<clock, seed, saved, raised>>
    /\ UNCHANGED avars

\* Time passes.
Tick ==
    /\ clock < MaxClock
    /\ clock' = clock + 1
    /\ UNCHANGED <<rng, run, seed, device_configs, true_timestamps, true_hr,
                   positions, device_config, noise, i, device_timestamps, device_hr,
                   dev, device1_out, saved, raised, gpc>>
    /\ UNCHANGED avars

\* No analyzer runs beside the generator.
AnalyzerIdle ==
    /\ file1 = <<>>
    /\ file2 = <<>>
    /\ device1_data = NotLoaded
    /\ device2_data = NotLoaded
    /\ diff_data = NotLoaded
    /\ stats = NotLoaded
    /\ stdout = <<>>
    /\ pc = "idle"

\* Two runs of the generator program with one explicit seed.
GeneratorInit ==
    /\ AnalyzerIdle
    /\ clock = 0
    /\ rng = [seeded |-> FALSE]
    /\ run = 1
    /\ seed \in 0..MaxSeed
    /\ device_configs = "None"
    /\ true_timestamps = <<>>
    /\ true_hr = <<>>
    /\ positions = <<>>
    /\ device_config = "None"
    /\ noise = <<>>
    /\ i = 0
    /\ device_timestamps = <<>>
    /\ device_hr = <<>>
    /\ dev = 1
    /\ device1_out = "None"
    /\ saved = <<>>
    /\ raised = "None"
    /\ gpc = "main"

GeneratorNext ==
    \/ Construct
    \/ GenerateTrueHeartRate
    \/ GeneratePositionData
    \/ DeviceBegin
    \/ DeviceGap
    \/ DeviceEmit
    \/ DeviceReturn
    \/ SaveFiles
    \/ SecondRun
    \/ Tick

SpecGenerator == GeneratorInit /\ [][GeneratorNext]_vars

\* A direct call generate_device_data(true_timestamps, true_hr, device_config)
\* on a generator built without a seed.
DeviceCallInit(hr, config) ==
    /\ AnalyzerIdle
    /\ clock = 0
    /\ rng = [seeded |-> FALSE]
    /\ run = 1
    /\ seed = "None"
    /\ device_configs = "None"
    /\ true_timestamps = [k \in 1..Len(hr) |-> TimestampAfter(0, k - 1)]
    /\ true_hr = hr
    /\ positions = <<>>
    /\ device_config = config
    /\ noise = <<>>
    /\ i = 0
    /\ device_timestamps = <<>>
    /\ device_hr = <<>>
    /\ dev = 0
    /\ device1_out = "None"
    /\ saved = <<>>
    /\ raised = "None"
    /\ gpc = "device_begin"

DeviceNext == DeviceBegin \/ DeviceGap \/ DeviceEmit \/ DeviceReturn

\* Ground-truth values, biases and noise levels far outside [40, 220] bpm.
TrueHRInputs == {-1000000, 100000, 1000000}

BiasInputs == {-500000, 0, 500000}

NoiseStdInputs == {2000, 300000}

ValuesInit ==
    \E hr \in SeqsUpTo(TrueHRInputs, MaxSamples) :
        \E b \in BiasInputs, sd \in NoiseStdInputs :
            DeviceCallInit(hr, [bias |-> b, noise_std |-> sd,
                                gap_probability |-> 500, max_gap_seconds |-> 2,
                                duplicate_probability |-> 500])

SpecDeviceValues == ValuesInit /\ [][DeviceNext]_vars

\* Profiles in and out of range, on a non-empty ground truth of 100 bpm:
\* probabilities from -0.5 to 1.5, max_gap_seconds from 0 to 2.
ProbabilityInputs == {-500, 0, 500, 1000, 1500}

MaxGapInputs == {0, 1, 2}

ProfilesInit ==
    \E n \in 1..MaxSamples :
        \E gp \in ProbabilityInputs, mg \in MaxGapInputs, dp \in ProbabilityInputs :
            DeviceCallInit([k \in 1..n |-> 100000],
                           [bias |-> 0, noise_std |-> 1000,
                            gap_probability |-> gp, max_gap_seconds |-> mg,
                            duplicate_probability |-> dp])

SpecDeviceProfiles == ProfilesInit /\ [][DeviceNext]_vars

\* Longest ground-truth series the emission loop is followed on.
MaxTruth == 3

\* The emission loop on a ground truth of 0..MaxTruth samples of 100 bpm,
\* one per second, without bias or noise, under every profile above.
LoopInit ==
    \E n \in 0..MaxTruth :
        \E gp \in ProbabilityInputs, mg \in MaxGapInputs, dp \in ProbabilityInputs :
            DeviceCallInit([k \in 1..n |-> 100000],
                           [bias |-> 0, noise_std |-> 0,
                            gap_probability |-> gp, max_gap_seconds |-> mg,
                            duplicate_probability |-> dp])

SpecDeviceLoop == LoopInit /\ [][DeviceNext]_vars

\* The call is one sequential computation: the interpreter always executes
\* the next statement of generate_device_data while there is one.
SpecDeviceLoopFair == LoopInit /\ [][DeviceNext]_vars /\ WF_vars(DeviceNext)

\* ------------------------------------------------------------------ claims

\* The trackpoints of a file that carry a heart rate and have time t.
AtTime(file, t) == SelectSeq(file, LAMBDA tp : tp.hr_value # None /\ tp.time = t)

TimesWithHR(file) == {file[k].time : k \in {j \in 1..Len(file) : file[j].hr_value # None}}

FrameTimes(df) == {df[k].timestamp : k \in 1..Len(df)}

RowsAt(df, t) == SelectSeq(df, LAMBDA r : r.timestamp = t)

StrictlyIncreasing(df) ==
    \A a, b \in 1..Len(df) : a < b => df[a].timestamp < df[b].timestamp

Loaded == pc \in {"loaded", "plotted", "done"}

\* C1: for a file with at least one heart-rate record, the frame returned
\* by read_tcx_file has strictly increasing timestamps (so none occurs
\* twice), and its timestamps are exactly the timestamps of the file's
\* records that carry a heart rate.
CanonicalOf(df, file) ==
    TimesWithHR(file) # {} =>
        /\ StrictlyIncreasing(df)
        /\ FrameTimes(df) = TimesWithHR(file)

C1_SortedUniqueComplete ==
    Loaded => CanonicalOf(device1_data, file1) /\ CanonicalOf(device2_data, file2)

\* C1 witness: a file whose two heart-rate records are out of order was
\* loaded into a two-row frame.
C1_Witness ==
    /\ Loaded
    /\ Len(file1) = 2
    /\ file1[1].hr_value # None /\ file1[2].hr_value # None
    /\ file1[1].time > file1[2].time
    /\ Len(device1_data) = 2

\* C2: the frame holds exactly one row for every timestamp of the file's
\* heart-rate records, and the row's heart rate is the arithmetic mean of
\* the heart rates of all those records (sum / count); a timestamp that
\* occurs once keeps its heart rate.
RECURSIVE SumHR(_)
SumHR(tps) == IF tps = <<>> THEN 0 ELSE Val(Head(tps).hr_value) + SumHR(Tail(tps))

MeanOf(df, file) ==
    \A t \in TimesWithHR(file) :
        /\ Len(RowsAt(df, t)) = 1
        /\ LET hr == RowsAt(df, t)[1].heart_rate
               grp == AtTime(file, t)
           IN  /\ hr.den > 0
               /\ hr.num * Len(grp) = SumHR(grp) * hr.den
               /\ Len(grp) = 1 => hr = RatOfInt(Val(grp[1].hr_value))

C2_DuplicatesAveraged ==
    Loaded => MeanOf(device1_data, file1) /\ MeanOf(device2_data, file2)

\* C2 witness: [(t, 60), (t, 80)] was loaded as the single row (t, 70).
C2_Witness ==
    /\ Loaded
    /\ Len(file1) = 2
    /\ file1[1].time = file1[2].time
    /\ file1[1].hr_value = Some(60) /\ file1[2].hr_value = Some(80)
    /\ Len(device1_data) = 1
    /\ device1_data[1].heart_rate = RatOfInt(70)

\* file2 is a reordering of file1 (LoaderInit draws it so).
IsPermutation(f, g) ==
    /\ Len(f) = Len(g)
    /\ \E p \in Perms(Len(f)) : g = Permute(f, p)

\* C3 as stated: loading any reordering of the same trackpoints gives an
\* identical frame, auxiliary columns included.
C3_PermutationIdentical ==
    (Loaded /\ IsPermutation(file1, file2)) => device1_data = device2_data

AuxFields == {"latitude", "longitude", "altitude", "distance"}

\* The non-null values of field f among the heart-rate records at time t.
AuxValuesAt(file, t, f) ==
    {AtTime(file, t)[k][f] : k \in 1..Len(AtTime(file, t))} \ {None}

\* C3 amended: loading any reordering of the same trackpoints gives the
\* same timestamps and the same heart rates, and the same value of an
\* auxiliary field at every timestamp whose heart-rate records do not carry
\* two different non-null values of that field.
C3_PermutationInvariantWhereAuxAgree ==
    (Loaded /\ IsPermutation(file1, file2)) =>
        /\ Len(device1_data) = Len(device2_data)
        /\ \A k \in 1..Len(device1_data) :
            /\ device1_data[k].timestamp = device2_data[k].timestamp
            /\ device1_data[k].heart_rate = device2_data[k].heart_rate
            /\ \A f \in AuxFields :
                Cardinality(AuxValuesAt(file1, device1_data[k].timestamp, f)) <= 1
                    => device1_data[k][f] = device2_data[k][f]

\* C3 witness: two records of one timestamp, one without and one with a
\* position, were loaded in both orders and gave the same frame.
C3_Witness ==
    /\ Loaded
    /\ Len(file1) = 2
    /\ file2 = <<file1[2], file1[1]>>
    /\ file1[1].time = file1[2].time
    /\ file1[1].hr_value = Some(60) /\ file1[2].hr_value = Some(80)
    /\ file1[1].latitude = None /\ file1[2].latitude = Some(1)
    /\ Len(device1_data) = 1
    /\ device1_data[1].latitude = Some(1)
    /\ device1_data = device2_data

BothNonEmpty ==
    /\ device1_data # EmptyDataFrame
    /\ device2_data # EmptyDataFrame

\* C4: for two non-empty frames, calculate_differences returns exactly one
\* record for every timestamp present in both and none for any other
\* timestamp, and the record's difference is the heart rate of device 1
\* minus the heart rate of device 2 at that timestamp.
C4_InnerJoinDifferences ==
    (pc = "done" /\ BothNonEmpty) =>
        \A t \in Timestamps :
            IF t \in FrameTimes(device1_data) /\ t \in FrameTimes(device2_data)
            THEN /\ Len(RowsAt(diff_data, t)) = 1
                 /\ LET d == RowsAt(diff_data, t)[1].heart_rate_difference
                        a == RowsAt(device1_data, t)[1].heart_rate
                        b == RowsAt(device2_data, t)[1].heart_rate
                    IN  /\ d.den > 0
                        /\ d.num * a.den * b.den
                             = (a.num * b.den - b.num * a.den) * d.den
            ELSE RowsAt(diff_data, t) = <<>>

\* C4 witness: device 1 has two timestamps, device 2 only one of them, and
\* the one difference record is not zero.
C4_Witness ==
    /\ pc = "done"
    /\ Len(device1_data) = 2
    /\ Len(device2_data) = 1
    /\ Len(diff_data) = 1
    /\ diff_data[1].heart_rate_difference.num # 0

\* C5: with the two frames swapped, calculate_differences returns the same
\* number of records with the same timestamps and every difference negated,
\* and the statistics report the same count.
C5_SwapNegates ==
    pc = "done" =>
        LET sw == calculate_differences(device2_data, device1_data).ret
            swStats == calculate_summary_statistics(device2_data, device1_data)
        IN  /\ Len(sw) = Len(diff_data)
            /\ \A k \in 1..Len(diff_data) :
                /\ sw[k].timestamp = diff_data[k].timestamp
                /\ sw[k].heart_rate_difference
                     = RatNeg(diff_data[k].heart_rate_difference)
            /\ ("difference" \in DOMAIN swStats) = ("difference" \in DOMAIN stats)
            /\ "difference" \in DOMAIN stats =>
                 swStats["difference"].count = stats["difference"].count

\* C5 witness: a difference record that is not zero was computed.
C5_Witness ==
    /\ pc = "done"
    /\ Len(diff_data) = 2
    /\ diff_data[1].heart_rate_difference.num > 0
    /\ diff_data[2].heart_rate_difference.num < 0

\* C6: if either frame is empty, calculate_differences returns the empty
\* frame and the statistics have an entry for each non-empty device only.
C6_EmptyInput ==
    (pc = "done" /\ ~BothNonEmpty) =>
        /\ diff_data = EmptyDataFrame
        /\ DOMAIN stats =
             (IF device1_data # EmptyDataFrame THEN {"device1"} ELSE {})
             \cup (IF device2_data # EmptyDataFrame THEN {"device2"} ELSE {})

\* C6 witness: device 1 empty, device 2 not, statistics for device 2 only.
C6_Witness ==
    /\ pc = "done"
    /\ device1_data = EmptyDataFrame
    /\ Len(device2_data) = 2
    /\ DOMAIN stats = {"device2"}
    /\ stats["device2"].count = 2

NoSharedTimestamp == FrameTimes(device1_data) \cap FrameTimes(device2_data) = {}

\* C7 as stated: for two non-empty frames without a common timestamp,
\* what calculate_differences returns differs from what it returns when an
\* input frame is empty, and so do the difference statistics.
C7_NoMatchDistinctFromEmptyInput ==
    (pc = "done" /\ BothNonEmpty /\ NoSharedTimestamp) =>
        \/ diff_data # calculate_differences(EmptyDataFrame, device2_data).ret
        \/ ("difference" \in DOMAIN stats)
             # ("difference" \in
                    DOMAIN calculate_summary_statistics(EmptyDataFrame, device2_data))

\* C8: every heart rate generate_device_data emits, a sample or its
\* duplicate, lies in [40, 220] bpm, whatever the ground truth, the bias
\* and the noise.
C8_EmittedValuesClamped ==
    \A k \in 1..Len(device_hr) :
        /\ 40 * 1000 <= device_hr[k]
        /\ device_hr[k] <= 220 * 1000

\* C8 witness: a call has returned a sample with its duplicate, both held
\* at 40, and a sample held at 220.
C8_Witness ==
    /\ gpc = "returned"
    /\ Len(device_hr) = 3
    /\ device_timestamps[1] = device_timestamps[2]
    /\ true_hr[1] + device_config.bias + noise[1] < 0
    /\ device_hr[1] = 40 * 1000
    /\ device_hr[2] = 40 * 1000
    /\ true_hr[2] + device_config.bias + noise[2] > 220 * 1000
    /\ device_hr[3] = 220 * 1000

TimesAndHeartRates(tps) == [k \in 1..Len(tps) |-> <<tps[k].time, tps[k].hr_value>>]

\* C9 as stated: two runs of the generator with the same explicit seed
\* save the same trackpoints for both devices (the same timestamps and
\* heart rates in the same order), whenever each run is started.
C9_SameSeedSameTrackpoints ==
    Len(saved) = 2 =>
        /\ TimesAndHeartRates(saved[1].device1) = TimesAndHeartRates(saved[2].device1)
        /\ TimesAndHeartRates(saved[1].device2) = TimesAndHeartRates(saved[2].device2)

InvalidProfile(c) ==
    \/ c.gap_probability < 0 \/ c.gap_probability > 1000
    \/ c.duplicate_probability < 0 \/ c.duplicate_probability > 1000
    \/ c.max_gap_seconds < 1

\* C10 as stated: called with a profile whose gap_probability or
\* duplicate_probability is outside [0, 1] or whose max_gap_seconds is not
\* positive, generate_device_data emits no sample and does not return
\* normally (it fails with an error instead).
C10_InvalidProfileRejected ==
    (gpc \in {"device_loop", "raised", "returned"} /\ InvalidProfile(device_config)) =>
        /\ device_hr = <<>>
        /\ gpc # "returned"

ValidProfile(c) == ~InvalidProfile(c)

\* C11: under a profile with probabilities in [0, 1] and max_gap_seconds
\* >= 1, every iteration of the emission loop of generate_device_data, a
\* gap or an emission, strictly increases the index i, and the call, once
\* begun, always returns.
C11_LoopTerminates ==
    /\ [][(gpc = "device_loop" /\ gpc' = "device_loop" /\ ValidProfile(device_config))
             => i' > i]_vars
    /\ (gpc = "device_begin" /\ ValidProfile(device_config)) ~> (gpc = "returned")

\* C11 witness: with gap_probability 1 and max_gap_seconds 1 a call on two
\* samples has returned after two gaps in a row, having emitted nothing.
C11_Witness ==
    /\ gpc = "returned"
    /\ device_config.gap_probability = 1000
    /\ device_config.max_gap_seconds = 1
    /\ ValidProfile(device_config)
    /\ Len(true_timestamps) = 2
    /\ i = 2
    /\ device_timestamps = <<>>

\* The ground-truth timestamps of the indices the loop has passed (0-based
\* indices below i).
PassedTimestamps == {true_timestamps[k] : k \in 1..Min(i, Len(true_timestamps))}

\* How often timestamp t stands in the emitted sequence.
TimesEmitted(t) ==
    Cardinality({k \in 1..Len(device_timestamps) : device_timestamps[k] = t})

StrictlyIncreasingTruth ==
    \A k \in 1..(Len(true_timestamps) - 1) : true_timestamps[k] < true_timestamps[k + 1]

\* C12: on strictly increasing ground-truth timestamps, the timestamps
\* generate_device_data has emitted are non-decreasing in emission order,
\* each is the ground-truth timestamp of an index the loop has passed, and
\* none stands more than twice; an iteration of the loop either emits nothing
\* (a gap: the indices it skips are not emitted, and the loop never goes
\* back to them) or appends the timestamp of the current index once or
\* twice in a row and moves to the next index.
C12_EmittedTimestampsOrdered ==
    /\ [](StrictlyIncreasingTruth =>
            /\ \A k \in 1..(Len(device_timestamps) - 1) :
                    device_timestamps[k] <= device_timestamps[k + 1]
            /\ \A k \in 1..Len(device_timestamps) :
                    /\ device_timestamps[k] \in PassedTimestamps
                    /\ TimesEmitted(device_timestamps[k]) <= 2
            /\ Len(device_hr) = Len(device_timestamps))
    /\ [][(gpc = "device_loop" /\ gpc' = "device_loop") =>
            \/ /\ device_timestamps' = device_timestamps
               /\ i' >= i
            \/ /\ i' = i + 1
               /\ device_timestamps' \in
                    { Append(device_timestamps, true_timestamps[i + 1]),
                      device_timestamps \o
                        <<true_timestamps[i + 1], true_timestamps[i + 1]>> }]_vars

\* C12 witness: on three samples a call has returned the first sample with
\* its duplicate and the third sample; a gap skipped the second.
C12_Witness ==
    /\ gpc = "returned"
    /\ StrictlyIncreasingTruth
    /\ Len(true_timestamps) = 3
    /\ device_timestamps =
         <<true_timestamps[1], true_timestamps[1], true_timestamps[3]>>
    /\ i = 3

====
